---- MODULE Spec2Model ----
(***************************************************************************)
(* A model of spritelib.py of Reggie Next: the geometry properties of      *)
(* SpriteImage and Spritebox, the nearest-zone lookup, the tile table and  *)
(* the image cache, the track auxiliary item, the auxiliary item of a zone *)
(* and its reparenting, the image that follows a rectangle, the hooks of   *)
(* the sprite images and the geometry setters of the auxiliary items.      *)
(*                                                                         *)
(* Python floats are modelled as exact rationals <<numerator, denominator>>*)
(* in lowest terms with a positive denominator.  Every product the model   *)
(* forms with 1.5 or 0.75 is exact in binary floating point as well.       *)
(***************************************************************************)
EXTENDS Integers, Sequences, FiniteSets, TLC

VARIABLES
    obj,                \* the SpriteImage or Spritebox under test
    last,               \* the last mutating call on obj, with its argument
    got,                \* the value returned by a getter since that call
    zones,              \* the zone list handed to MapPositionToZoneID
    located,            \* the last MapPositionToZoneID call and its result
    Tiles,              \* spritelib.Tiles (a dict)
    ImageCache,         \* spritelib.ImageCache (a dict)
    SpriteImagesLoaded, \* spritelib.SpriteImagesLoaded (a set)
    SpritesFolders,     \* spritelib.SpritesFolders (a list)
    OutlinePen,         \* spritelib.OutlinePen
    OutlineBrush,       \* spritelib.OutlineBrush
    files,              \* the image files on disk, as <<folder, name>>
    called,             \* the last call on the caches and what it returned
    names,              \* names passed to loadIfNotInImageCache since main
    everNamed,          \* names ever passed to loadIfNotInImageCache
    track,              \* the AuxiliaryTrackObject under test
    drawn,              \* what the last paint of the track drew
    Area,               \* spritelib.Area
    zoneObjs,           \* the zone objects alive, each with its id and aux
    zitem,              \* the AuxiliaryZoneItem under test
    zcall,              \* the last call on zitem, with the state before it
    simg,               \* the SpriteImage or SpriteImage_Static under test
    scall,              \* the last call on simg, with the state before it
    aux,                \* the auxiliary item whose geometry setter is called
    events,             \* what the last call on aux did, in order
    fr,                 \* the AuxiliaryImage_FollowsRect under test
    frParent,           \* its parent item: a position, or destroyed
    RealViewEnabled,    \* spritelib.RealViewEnabled
    moved               \* the last call on fr and what it did

geomVars  == <<obj, last, got>>
zoneVars  == <<zones, located>>
cacheVars == <<Tiles, ImageCache, SpriteImagesLoaded, SpritesFolders,
               OutlinePen, OutlineBrush, files, called, names,
               everNamed>>
trackVars == <<track, drawn>>
ziVars    == <<Area, zoneObjs, zitem, zcall>>
imgVars   == <<simg, scall>>
auxVars   == <<aux, events>>
frVars    == <<fr, frParent, RealViewEnabled, moved>>
firstVars == <<geomVars, zoneVars, cacheVars, trackVars>>
laterVars == <<ziVars, imgVars, auxVars, frVars>>
vars == <<firstVars, laterVars>>

\* Python's None.
None == <<>>

-----------------------------------------------------------------------------
(* Arithmetic on floats, as rationals.                                     *)

Abs(n) == IF n < 0 THEN -n ELSE n

RECURSIVE GCD(_, _)
GCD(a, b) == IF b = 0 THEN a ELSE GCD(b, a % b)

Norm(n, d) ==
    LET s == IF d < 0 THEN -1 ELSE 1
        g == GCD(Abs(n), Abs(d))
    IN  <<(s * n) \div g, (s * d) \div g>>

Q(k) == <<k, 1>>
RAdd(a, b) == Norm(a[1] * b[2] + b[1] * a[2], a[2] * b[2])
RSub(a, b) == Norm(a[1] * b[2] - b[1] * a[2], a[2] * b[2])
RMul(a, b) == Norm(a[1] * b[1], a[2] * b[2])
RDiv(a, b) == Norm(a[1] * b[2], a[2] * b[1])

-----------------------------------------------------------------------------
(* Bounds and input sets of the geometry model.                            *)

MaxOff == 0
MaxSize == 1

DefaultScale == <<3, 2>>
Scales == {Q(1), DefaultScale}
OffVals == {Q(k) : k \in -1 .. MaxOff}
SizeVals == {Q(k) : k \in 1 .. MaxSize} \cup {Q(24)}
Pairs(S) == S \X S
DimTuples == OffVals \X OffVals \X SizeVals \X SizeVals

-----------------------------------------------------------------------------
(* SpriteImage: the offset, size and dimensions properties.                *)

SpriteImage_getOffset(self) == <<self.xOffset, self.yOffset>>

SpriteImage_setOffset(self, new) ==
    [self EXCEPT !.xOffset = new[1], !.yOffset = new[2]]

SpriteImage_delOffset(self) ==
    [self EXCEPT !.xOffset = Q(0), !.yOffset = Q(0)]

SpriteImage_getSize(self) == <<self.width, self.height>>

SpriteImage_setSize(self, new) ==
    [self EXCEPT !.width = new[1], !.height = new[2]]

SpriteImage_delSize(self) ==
    [self EXCEPT !.width = Q(16), !.height = Q(16)]

SpriteImage_getDimensions(self) ==
    <<self.xOffset, self.yOffset, self.width, self.height>>

\* A faulty setDimensions: the height is taken from new[2] as well.
SpriteImage_setDimensionsSquare(self, new) ==
    [self EXCEPT !.xOffset = new[1], !.yOffset = new[2],
                 !.width = new[3], !.height = new[3]]

SpriteImage_setDimensions(self, new) ==
    [self EXCEPT !.xOffset = new[1], !.yOffset = new[2],
                 !.width = new[3], !.height = new[4]]

SpriteImage_delDimensions(self) ==
    [self EXCEPT !.xOffset = Q(0), !.yOffset = Q(0),
                 !.width = Q(16), !.height = Q(16)]

\* SpriteImage.__init__: the fields are set through the dimensions property.
SpriteImage_init(scale) ==
    SpriteImage_setDimensions(
        [kind |-> "SpriteImage", xOffset |-> None, yOffset |-> None,
         width |-> None, height |-> None, scale |-> scale],
        <<Q(0), Q(0), Q(16), Q(16)>>)

-----------------------------------------------------------------------------
(* Spritebox: the same three properties and the two derived rectangles.    *)

Spritebox_init(scale) ==
    [kind |-> "Spritebox", xOffset |-> Q(0), yOffset |-> Q(0),
     width |-> Q(16), height |-> Q(16), scale |-> scale]

Spritebox_getOffset(self) == <<self.xOffset, self.yOffset>>

Spritebox_setOffset(self, new) ==
    [self EXCEPT !.xOffset = new[1], !.yOffset = new[2]]

Spritebox_delOffset(self) ==
    [self EXCEPT !.xOffset = Q(0), !.yOffset = Q(0)]

Spritebox_getSize(self) == <<self.width, self.height>>

Spritebox_setSize(self, new) ==
    [self EXCEPT !.width = new[1], !.height = new[2]]

Spritebox_delSize(self) ==
    [self EXCEPT !.width = Q(16), !.height = Q(16)]

Spritebox_getDimensions(self) ==
    <<self.xOffset, self.yOffset, self.width, self.height>>

Spritebox_setDimensions(self, new) ==
    [self EXCEPT !.xOffset = new[1], !.yOffset = new[2],
                 !.width = new[3], !.height = new[4]]

\* A faulty delDimensions: only the size is reset.
Spritebox_delDimensionsKeepOffset(self) ==
    [self EXCEPT !.width = Q(16), !.height = Q(16)]

Spritebox_delDimensions(self) ==
    [self EXCEPT !.xOffset = Q(0), !.yOffset = Q(0),
                 !.width = Q(16), !.height = Q(16)]

\* A faulty getRR: the size shrinks by 1 where the code has 2.
\* (A QRectF is the tuple <<x, y, width, height>>.)
Spritebox_getRRInsetBoth(self) ==
    <<RAdd(RMul(self.xOffset, self.scale), Q(1)),
      RAdd(RMul(self.yOffset, self.scale), Q(1)),
      RSub(RMul(self.width, self.scale), Q(1)),
      RSub(RMul(self.height, self.scale), Q(1))>>

Spritebox_getRR(self) ==
    <<RAdd(RMul(self.xOffset, self.scale), Q(1)),
      RAdd(RMul(self.yOffset, self.scale), Q(1)),
      RSub(RMul(self.width, self.scale), Q(2)),
      RSub(RMul(self.height, self.scale), Q(2))>>

Spritebox_setRR(self, new) ==
    Spritebox_setDimensions(self,
        <<RSub(RDiv(new[1], self.scale), Q(1)),
          RSub(RDiv(new[2], self.scale), Q(1)),
          RAdd(RDiv(new[3], self.scale), Q(2)),
          RAdd(RDiv(new[4], self.scale), Q(2))>>)

Spritebox_delRR(self) ==
    Spritebox_setDimensions(self, <<Q(0), Q(0), Q(16), Q(16)>>)

\* A faulty getBR: the size is left unscaled.
Spritebox_getBRUnscaledSize(self) ==
    <<RMul(self.xOffset, self.scale), RMul(self.yOffset, self.scale),
      self.width, self.height>>

Spritebox_getBR(self) ==
    <<RMul(self.xOffset, self.scale), RMul(self.yOffset, self.scale),
      RMul(self.width, self.scale), RMul(self.height, self.scale)>>

Spritebox_setBR(self, new) ==
    Spritebox_setDimensions(self,
        <<RMul(new[1], self.scale), RMul(new[2], self.scale),
          RMul(new[3], self.scale), RMul(new[4], self.scale)>>)

Spritebox_delBR(self) ==
    Spritebox_setDimensions(self, <<Q(0), Q(0), Q(16), Q(16)>>)

-----------------------------------------------------------------------------
(* The calls on the object under test.  A mutating call records itself in  *)
(* last, with whether it changed the object, and forgets the value read    *)
(* before it; a getter records what it returned in got.                    *)

IsBox == obj.kind = "Spritebox"
NoRead == [op |-> "none", val |-> <<>>]

Mutate(op, arg, newobj) ==
    /\ obj' = newobj
    /\ last' = [op |-> op, arg |-> arg, changed |-> newobj # obj]
    /\ got' = NoRead
    /\ UNCHANGED <<zoneVars, cacheVars, trackVars,
                   laterVars>>

Read(op, val) ==
    /\ got' = [op |-> op, val |-> val]
    /\ UNCHANGED <<obj, last, zoneVars, cacheVars, trackVars,
                   laterVars>>

setOffset(new) ==
    Mutate("setOffset", new,
           IF IsBox THEN Spritebox_setOffset(obj, new)
                    ELSE SpriteImage_setOffset(obj, new))

delOffset ==
    Mutate("delOffset", <<>>,
           IF IsBox THEN Spritebox_delOffset(obj)
                    ELSE SpriteImage_delOffset(obj))

setSize(new) ==
    Mutate("setSize", new,
           IF IsBox THEN Spritebox_setSize(obj, new)
                    ELSE SpriteImage_setSize(obj, new))

delSize ==
    Mutate("delSize", <<>>,
           IF IsBox THEN Spritebox_delSize(obj)
                    ELSE SpriteImage_delSize(obj))

setDimensions(new) ==
    Mutate("setDimensions", new,
           IF IsBox THEN Spritebox_setDimensions(obj, new)
                    ELSE SpriteImage_setDimensions(obj, new))

delDimensions ==
    Mutate("delDimensions", <<>>,
           IF IsBox THEN Spritebox_delDimensions(obj)
                    ELSE SpriteImage_delDimensions(obj))

setRR(new) == IsBox /\ Mutate("setRR", new, Spritebox_setRR(obj, new))
delRR == IsBox /\ Mutate("delRR", <<>>, Spritebox_delRR(obj))
setBR(new) == IsBox /\ Mutate("setBR", new, Spritebox_setBR(obj, new))
delBR == IsBox /\ Mutate("delBR", <<>>, Spritebox_delBR(obj))

getOffset ==
    Read("getOffset", IF IsBox THEN Spritebox_getOffset(obj)
                               ELSE SpriteImage_getOffset(obj))

getSize ==
    Read("getSize", IF IsBox THEN Spritebox_getSize(obj)
                             ELSE SpriteImage_getSize(obj))

getDimensions ==
    Read("getDimensions", IF IsBox THEN Spritebox_getDimensions(obj)
                                   ELSE SpriteImage_getDimensions(obj))

getRR == IsBox /\ Read("getRR", Spritebox_getRR(obj))
getBR == IsBox /\ Read("getBR", Spritebox_getBR(obj))

GeomInit ==
    /\ \E scale \in Scales :
           obj \in {SpriteImage_init(scale), Spritebox_init(scale)}
    /\ last = [op |-> "__init__", arg |-> <<>>, changed |-> FALSE]
    /\ got = NoRead

GeomNext ==
    \/ \E new \in Pairs(OffVals) : setOffset(new)
    \/ delOffset
    \/ \E new \in Pairs(SizeVals) : setSize(new)
    \/ delSize
    \/ \E new \in DimTuples : setDimensions(new)
    \/ delDimensions
    \/ \E new \in DimTuples : setRR(new)
    \/ delRR
    \/ \E new \in DimTuples : setBR(new)
    \/ delBR
    \/ getOffset
    \/ getSize
    \/ getDimensions
    \/ getRR
    \/ getBR


-----------------------------------------------------------------------------
(* MapPositionToZoneID.  A zone is [ZoneRect, id]; its ZoneRect is the     *)
(* QRectF <<x, y, width, height>>.  Indices are Python's, from 0.          *)

MaxZones == 2
MaxPoint == 3

ZoneOrigins == {0, 2}
ZoneSides == {1, 3}
ZoneSet ==
    {[ZoneRect |-> <<l, t, s, s>>, id |-> 10 + l + (2 * t) + s] :
        l \in ZoneOrigins, t \in ZoneOrigins, s \in ZoneSides}
ZoneLists == UNION {[1 .. n -> ZoneSet] : n \in 0 .. MaxZones}
PointVals == -1 .. MaxPoint

\* QRectF.contains(x, y): edges included, a rectangle without extent holds
\* no point.
QRectF_contains(rect, x, y) ==
    LET l == IF rect[3] < 0 THEN rect[1] + rect[3] ELSE rect[1]
        r == IF rect[3] < 0 THEN rect[1] ELSE rect[1] + rect[3]
        t == IF rect[4] < 0 THEN rect[2] + rect[4] ELSE rect[2]
        b == IF rect[4] < 0 THEN rect[2] ELSE rect[2] + rect[4]
    IN  /\ l # r /\ x >= l /\ x <= r
        /\ t # b /\ y >= t /\ y <= b

\* QRectF.getCoords(): <<left, top, right, bottom>>.
QRectF_getCoords(rect) ==
    <<rect[1], rect[2], rect[1] + rect[3], rect[2] + rect[4]>>

\* Lines 138-145: the squared distance from (x, y) to the rectangle.
ZoneDist(rect, x, y) ==
    LET c == QRectF_getCoords(rect)
        dx == IF x < c[1] THEN (c[1] - x) * (c[1] - x)
              ELSE IF x > c[3] THEN (x - c[3]) * (x - c[3]) ELSE 0
        dy == IF y < c[2] THEN (c[2] - y) * (c[2] - y)
              ELSE IF y > c[4] THEN (y - c[4]) * (y - c[4]) ELSE 0
    IN  dx + dy

\* A faulty line 147: <= lets a later zone at the same distance win.
IsNearerOrEqual(dist, minimumdist) == dist <= minimumdist \/ minimumdist = -1

\* Line 147: the test that replaces the best zone so far.
IsNearer(dist, minimumdist) == dist < minimumdist \/ minimumdist = -1

\* A faulty loop body: a containing zone does not end the loop.
ZoneStepNoBreak(acc, i, zone, x, y) ==
    IF QRectF_contains(zone.ZoneRect, x, y)
    THEN [acc EXCEPT !.match_index = i]
    ELSE LET dist == ZoneDist(zone.ZoneRect, x, y)
         IN  IF IsNearer(dist, acc.minimumdist)
             THEN [acc EXCEPT !.minimumdist = dist, !.match_index = i]
             ELSE acc

\* Lines 133-149: one pass of the loop body for the zone at index i.
ZoneStep(acc, i, zone, x, y) ==
    IF QRectF_contains(zone.ZoneRect, x, y)
    THEN [acc EXCEPT !.match_index = i, !.broke = TRUE]
    ELSE LET dist == ZoneDist(zone.ZoneRect, x, y)
         IN  IF IsNearer(dist, acc.minimumdist)
             THEN [acc EXCEPT !.minimumdist = dist, !.match_index = i]
             ELSE acc

RECURSIVE ZoneLoop(_, _, _, _, _)
ZoneLoop(zs, i, x, y, acc) ==
    IF i >= Len(zs) \/ acc.broke
    THEN acc
    ELSE ZoneLoop(zs, i + 1, x, y, ZoneStep(acc, i, zs[i + 1], x, y))

MapPositionToZoneID(zs, x, y, get_id) ==
    LET acc == ZoneLoop(zs, 0, x, y,
                        [minimumdist |-> -1, match_index |-> -1,
                         broke |-> FALSE])
    IN  IF acc.match_index = -1 THEN -1
        ELSE IF get_id THEN zs[acc.match_index + 1].id
        ELSE acc.match_index

NotLocated == [asked |-> FALSE, x |-> 0, y |-> 0, get_id |-> FALSE,
               result |-> -1]

Locate(x, y, get_id) ==
    /\ located' = [asked |-> TRUE, x |-> x, y |-> y, get_id |-> get_id,
                   result |-> MapPositionToZoneID(zones, x, y, get_id)]
    /\ UNCHANGED <<zones, geomVars, cacheVars, trackVars,
                   laterVars>>

ZonesInit ==
    /\ zones \in ZoneLists
    /\ located = NotLocated

ZonesNext ==
    \E x \in PointVals, y \in PointVals, get_id \in BOOLEAN :
        Locate(x, y, get_id)


-----------------------------------------------------------------------------
(* The process-wide state: tile table, image cache, override folders.      *)
(* A dict is a function on the set of its keys; the empty dict is <<>>.    *)

MaxLoadedSlot == 1
MaxFolders == 2

NumSlots == 256
UnknownTile == (4 * 512) + 64

TileSlots == (0 .. MaxLoadedSlot) \cup {NumSlots - 1, UnknownTile}
TileObjs == {[main |-> "imageA"], [main |-> "imageB"]}

BaseFolder == "reggiedata/sprites"
Folders == {"modA", "modB"}
ImgNames == {"a.png", "b.png"}
CacheNames == {"A", "B"}
FileSystems ==
    SUBSET (((Folders \cup {BaseFolder}) \X {"a.png"})
            \cup {<<BaseFolder, "b.png">>})

Put(dict, key, value) ==
    [k \in (DOMAIN dict) \cup {key} |-> IF k = key THEN value ELSE dict[k]]

Return(value) == [raised |-> "", value |-> value]
Raise(error) == [raised |-> error, value |-> None]

\* Lines 65-66 of main: every slot of range(256) is set to None; the other
\* keys of the dict stay.
ResetTiles(tiles) ==
    [k \in (DOMAIN tiles) \cup (0 .. NumSlots - 1) |->
        IF k \in 0 .. NumSlots - 1 THEN None ELSE tiles[k]]

main ==
    /\ OutlinePen' = [color |-> "OutlineColor", width |-> 4]
    /\ OutlineBrush' = [color |-> "OutlineColor"]
    /\ Tiles' = ResetTiles(Tiles)
    /\ ImageCache' = <<>>
    /\ SpriteImagesLoaded' = {}
    /\ SpritesFolders' = <<>>
    /\ names' = {}
    /\ UNCHANGED everNamed
    /\ called' = [op |-> "main", arg |-> <<>>, result |-> Return(None),
                  loaded |-> FALSE]
    /\ UNCHANGED <<files, geomVars, zoneVars, trackVars,
                   laterVars>>

\* Lines 88-92 of GetImg: the override folders, the most recent first.
RECURSIVE FindPath(_, _, _, _)
FindPath(fs, folders, i, imgname) ==
    IF i = 0 THEN <<BaseFolder, imgname>>
    ELSE IF <<folders[i], imgname>> \in fs THEN <<folders[i], imgname>>
    ELSE FindPath(fs, folders, i - 1, imgname)

GetImg(fs, folders, imgname, image) ==
    LET path == FindPath(fs, folders, Len(folders), imgname)
    IN  IF path \in fs
        THEN [type |-> IF image THEN "QImage" ELSE "QPixmap", path |-> path]
        ELSE None

GetTile(tiles, tile_id) ==
    IF tile_id \notin DOMAIN tiles THEN Raise("KeyError")
    ELSE IF tiles[tile_id] # None THEN Return(tiles[tile_id].main)
    ELSE IF UnknownTile \notin DOMAIN tiles THEN Raise("KeyError")
    ELSE IF tiles[UnknownTile] = None THEN Raise("AttributeError")
    ELSE Return(tiles[UnknownTile].main)

\* A faulty loadIfNotInImageCache: the image is loaded whether or not the
\* name is cached.
loadAlways(fs, folders, cache, name, filename) ==
    [cache |-> Put(cache, name, GetImg(fs, folders, filename, FALSE)),
     loaded |-> TRUE]

\* The new cache, and whether GetImg was called.
loadIfNotInImageCache(fs, folders, cache, name, filename) ==
    IF name \notin DOMAIN cache
    THEN [cache |-> Put(cache, name, GetImg(fs, folders, filename, FALSE)),
          loaded |-> TRUE]
    ELSE [cache |-> cache, loaded |-> FALSE]

CallGetTile(tile_id) ==
    /\ called' = [op |-> "GetTile", arg |-> <<tile_id>>,
                  result |-> GetTile(Tiles, tile_id), loaded |-> FALSE]
    /\ UNCHANGED <<Tiles, ImageCache, SpriteImagesLoaded, SpritesFolders,
                   OutlinePen, OutlineBrush, files, names, everNamed,
                   geomVars, zoneVars, trackVars,
                   laterVars>>

CallLoadIfNotInImageCache(name, filename) ==
    LET r == loadIfNotInImageCache(files, SpritesFolders, ImageCache,
                                   name, filename)
    IN  /\ ImageCache' = r.cache
        /\ names' = names \cup {name}
        /\ everNamed' = everNamed \cup {name}
        /\ called' = [op |-> "loadIfNotInImageCache",
                      arg |-> <<name, filename>>,
                      result |-> Return(None), loaded |-> r.loaded]
        /\ UNCHANGED <<Tiles, SpriteImagesLoaded, SpritesFolders, OutlinePen,
                       OutlineBrush, files, geomVars, zoneVars, trackVars,
                       laterVars>>

\* The host stores a loaded tile in the table.
LoadTile(slot, tile) ==
    /\ Tiles' = Put(Tiles, slot, tile)
    /\ called' = [op |-> "LoadTile", arg |-> <<slot>>,
                  result |-> Return(None), loaded |-> FALSE]
    /\ UNCHANGED <<ImageCache, SpriteImagesLoaded, SpritesFolders, OutlinePen,
                   OutlineBrush, files, names, everNamed, geomVars, zoneVars,
                   trackVars,
                   laterVars>>

\* The host registers an override folder.
AddFolder(folder) ==
    /\ Len(SpritesFolders) < MaxFolders
    /\ SpritesFolders' = Append(SpritesFolders, folder)
    /\ called' = [op |-> "AddFolder", arg |-> <<folder>>,
                  result |-> Return(None), loaded |-> FALSE]
    /\ UNCHANGED <<Tiles, ImageCache, SpriteImagesLoaded, OutlinePen,
                   OutlineBrush, files, names, everNamed, geomVars, zoneVars,
                   trackVars,
                   laterVars>>

\* A sprite class notes that its images are loaded.
SpriteIds == {20, 21}
AddSpriteImagesLoaded(id) ==
    /\ SpriteImagesLoaded' = SpriteImagesLoaded \cup {id}
    /\ called' = [op |-> "SpriteImagesLoaded.add", arg |-> <<id>>,
                  result |-> Return(None), loaded |-> FALSE]
    /\ UNCHANGED <<Tiles, ImageCache, SpritesFolders, OutlinePen,
                   OutlineBrush, files, names, everNamed, geomVars, zoneVars,
                   trackVars, laterVars>>

\* Lines 40-49: the module as loaded.
GlobalsInit ==
    /\ OutlinePen = None
    /\ OutlineBrush = None
    /\ ImageCache = <<>>
    /\ Tiles = <<>>
    /\ SpriteImagesLoaded = {}
    /\ SpritesFolders = <<>>
    /\ names = {}
    /\ everNamed = {}
    /\ called = [op |-> "import", arg |-> <<>>, result |-> Return(None),
                 loaded |-> FALSE]

TilesNext ==
    \/ main
    \/ \E slot \in TileSlots, tile \in TileObjs : LoadTile(slot, tile)
    \/ \E tile_id \in TileSlots : CallGetTile(tile_id)
    \/ \E id \in SpriteIds : AddSpriteImagesLoaded(id)

CacheNext ==
    \/ main
    \/ \E folder \in Folders : AddFolder(folder)
    \/ \E name \in CacheNames, filename \in ImgNames :
           CallLoadIfNotInImageCache(name, filename)


-----------------------------------------------------------------------------
(* AuxiliaryTrackObject.  A painter call is recorded with its arguments.   *)

MaxTrackCells == 3

Horizontal == 1
Vertical == 2
Directions == {Horizontal, Vertical}
CellSizes == {Q(16 * k) : k \in 1 .. MaxTrackCells}
TrackSizes == CellSizes \cup {Q(100)}

OneAndHalf == <<3, 2>>
ThreeQuarters == <<3, 4>>

\* __init__, after AuxiliarySpriteItem.__init__ whose BoundingRect and hover it
\* overwrites.
AuxiliaryTrackObject_init(width, height, direction) ==
    [hover |-> FALSE,
     BoundingRect |-> <<Q(0), Q(0), RMul(width, OneAndHalf),
                        RMul(height, OneAndHalf)>>,
     pos |-> <<Q(0), Q(0)>>,
     width |-> width, height |-> height, direction |-> direction]

AuxiliaryTrackObject_setSize(self, width, height) ==
    [self EXCEPT !.BoundingRect = <<Q(0), Q(0), RMul(width, OneAndHalf),
                                    RMul(height, OneAndHalf)>>,
                 !.width = width, !.height = height]

AuxiliarySpriteItem_boundingRect(self) == self.BoundingRect

\* A faulty paint: the far end of the line is taken from the unscaled size.
AuxiliaryTrackObject_paintUnscaled(self, pen, option) ==
    IF self.direction = Horizontal
    THEN LET lineY == RMul(self.height, ThreeQuarters)
         IN  [painted |-> TRUE, clip |-> option # None, pen |-> pen,
              line |-> <<Q(20), lineY, RSub(self.width, Q(20)), lineY>>,
              ellipses |-> <<<<Q(8), RSub(lineY, Q(4)), Q(8), Q(8)>>,
                             <<RSub(self.width, Q(16)),
                               RSub(lineY, Q(4)), Q(8), Q(8)>> >>]
    ELSE LET lineX == RMul(self.width, ThreeQuarters)
         IN  [painted |-> TRUE, clip |-> option # None, pen |-> pen,
              line |-> <<lineX, Q(20), lineX, RSub(self.height, Q(20))>>,
              ellipses |-> <<<<RSub(lineX, Q(4)), Q(8), Q(8), Q(8)>>,
                             <<RSub(lineX, Q(4)),
                               RSub(self.height, Q(16)), Q(8), Q(8)>> >>]

\* What paint hands to the painter: the clip rectangle and antialiasing when
\* an option is given, the pen, the line and the two end circles.
AuxiliaryTrackObject_paint(self, pen, option) ==
    IF self.direction = Horizontal
    THEN LET lineY == RMul(self.height, ThreeQuarters)
             far == RMul(self.width, OneAndHalf)
         IN  [painted |-> TRUE, clip |-> option # None, pen |-> pen,
              line |-> <<Q(20), lineY, RSub(far, Q(20)), lineY>>,
              ellipses |-> <<<<Q(8), RSub(lineY, Q(4)), Q(8), Q(8)>>,
                             <<RSub(far, Q(16)), RSub(lineY, Q(4)),
                               Q(8), Q(8)>> >>]
    ELSE LET lineX == RMul(self.width, ThreeQuarters)
             far == RMul(self.height, OneAndHalf)
         IN  [painted |-> TRUE, clip |-> option # None, pen |-> pen,
              line |-> <<lineX, Q(20), lineX, RSub(far, Q(20))>>,
              ellipses |-> <<<<RSub(lineX, Q(4)), Q(8), Q(8), Q(8)>>,
                             <<RSub(lineX, Q(4)), RSub(far, Q(16)),
                               Q(8), Q(8)>> >>]

NotPainted ==
    [painted |-> FALSE, clip |-> FALSE, pen |-> None, line |-> <<>>,
     ellipses |-> <<>>]

Options == {None, [exposedRect |-> "exposed"]}

TrackSetSize(width, height) ==
    /\ track' = AuxiliaryTrackObject_setSize(track, width, height)
    /\ drawn' = NotPainted
    /\ UNCHANGED <<geomVars, zoneVars, cacheVars,
                   laterVars>>

TrackPaint(option) ==
    /\ drawn' = AuxiliaryTrackObject_paint(track, OutlinePen, option)
    /\ UNCHANGED <<track, geomVars, zoneVars, cacheVars,
                   laterVars>>

TrackInit ==
    /\ \E width \in CellSizes, height \in CellSizes,
          direction \in Directions :
           track = AuxiliaryTrackObject_init(width, height, direction)
    /\ drawn = NotPainted

TrackNext ==
    \/ main
    \/ \E width \in TrackSizes, height \in TrackSizes :
           TrackSetSize(width, height)
    \/ \E option \in Options : TrackPaint(option)

-----------------------------------------------------------------------------
(* Auxiliary items, as the sequence of things a call does.  A step either   *)
(* assigns a field of the item (BoundingRect, width, ...) or is a call into *)
(* Qt: prepareGeometryChange, setPos (which assigns the position pos),      *)
(* setParentItem (which assigns parentItem).                                *)

Step(f, v) == [f |-> f, v |-> v]
prepareGeometryChange == Step("prepareGeometryChange", None)
setPos(x, y) == Step("pos", <<x, y>>)
setParentItem(parent) == Step("parentItem", parent)
QRectF(x, y, w, h) == <<x, y, w, h>>

RunStep(self, step) ==
    IF step.f \in DOMAIN self THEN [self EXCEPT ![step.f] = step.v] ELSE self

RECURSIVE Run(_, _)
Run(self, steps) ==
    IF steps = <<>> THEN self ELSE Run(RunStep(self, Head(steps)), Tail(steps))

Trace(steps) == [i \in 1..Len(steps) |-> steps[i].f]

-----------------------------------------------------------------------------
(* AuxiliaryZoneItem and the zones of the current area.  A zone object is   *)
(* referred to by a one-element tuple, so that a reference can be compared  *)
(* with None; zoneObjs maps each reference to the zone's id, its aux set    *)
(* and its bounding rectangle.  Area is None until the editor loads an area *)
(* and is then an object whose zones attribute lists zone references.       *)

MaxZoneObjs == 2
ZoneRefs == {<<k>> : k \in 1..MaxZoneObjs}
ZoneIds == {1, 2}
AskedIds == ZoneIds \cup {3}
OtherAux == {"other"}

RECURSIVE DistinctSeqs(_)
DistinctSeqs(S) ==
    {<<>>} \cup UNION {{<<z>> \o q : q \in DistinctSeqs(S \ {z})} : z \in S}

hasattr(o, name) == name \in DOMAIN o

AuxiliaryZoneItem_init(parent, objs) ==
    [item  |-> [kind |-> "AuxiliaryZoneItem", parent |-> parent,
                parentItem |-> parent, hover |-> FALSE, pos |-> <<0, 0>>,
                BoundingRect |-> QRectF(0, 0, 24, 24)],
     zones |-> IF parent # None
               THEN [objs EXCEPT ![parent].aux = @ \cup {"self"}]
               ELSE objs]

\* for iterz in Area.zones: if iterz.id == id: z = iterz
RECURSIVE SetZoneIDLoop(_, _, _, _)
SetZoneIDLoop(areaZones, objs, id, z) ==
    IF areaZones = <<>> THEN z
    ELSE SetZoneIDLoop(Tail(areaZones), objs, id,
                       IF objs[Head(areaZones)].id = id
                       THEN Head(areaZones) ELSE z)

ZoneCallResult(item, objs, raised) ==
    [item |-> item, zones |-> objs, raised |-> raised]

\* The reparenting of setZoneID once the zone z is found, without the
\* removal from the old parent's aux set.
AuxiliaryZoneItem_setZoneIDKeepOld(self, objs, z) ==
    ZoneCallResult(
        [Run(self, <<setParentItem(z)>>) EXCEPT !.parent = z],
        [objs EXCEPT ![z].aux = @ \cup {"self"}], "")

\* The reparenting of setZoneID once the zone z is found.
AuxiliaryZoneItem_reparent(self, objs, z) ==
    LET left == IF self.parent # None
                THEN [objs EXCEPT ![self.parent].aux = @ \ {"self"}]
                ELSE objs
    IN  ZoneCallResult(
            [Run(self, <<setParentItem(z)>>) EXCEPT !.parent = z],
            [left EXCEPT ![z].aux = @ \cup {"self"}], "")

AuxiliaryZoneItem_setZoneID(self, objs, area, id) ==
    IF ~hasattr(area, "zones") THEN ZoneCallResult(self, objs, "")
    ELSE LET z == SetZoneIDLoop(area.zones, objs, id, None)
         IN  IF z = None THEN ZoneCallResult(self, objs, "ValueError")
             ELSE AuxiliaryZoneItem_reparent(self, objs, z)

AuxiliaryZoneItem_alignToZone(self, objs) ==
    <<setPos(0, 0),
      Step("BoundingRect",
           IF self.parent # None THEN objs[self.parent].BoundingRect
           ELSE QRectF(0, 0, 24, 24))>>

NoZoneCall ==
    [op |-> "__init__", arg |-> None, raised |-> "", events |-> <<>>,
     before |-> None]

ZoneCalled(op, arg, raised, steps) ==
    zcall' = [op |-> op, arg |-> arg, raised |-> raised,
              events |-> Trace(steps),
              before |-> [item |-> zitem, zones |-> zoneObjs, Area |-> Area]]

\* The editor makes an area with these zones the current one.
SetArea(zs) ==
    /\ Area' = [zones |-> zs]
    /\ ZoneCalled("SetArea", zs, "", <<>>)
    /\ UNCHANGED <<zoneObjs, zitem, firstVars, imgVars, auxVars, frVars>>

SetZoneID(id) ==
    LET r == AuxiliaryZoneItem_setZoneID(zitem, zoneObjs, Area, id)
    IN  /\ zitem' = r.item
        /\ zoneObjs' = r.zones
        /\ ZoneCalled("setZoneID", id, r.raised, <<>>)
        /\ UNCHANGED <<Area, firstVars, imgVars, auxVars, frVars>>

AlignToZone ==
    LET steps == AuxiliaryZoneItem_alignToZone(zitem, zoneObjs)
    IN  /\ zitem' = Run(zitem, steps)
        /\ ZoneCalled("alignToZone", None, "", steps)
        /\ UNCHANGED <<Area, zoneObjs, firstVars, imgVars, auxVars, frVars>>

ZoneBoundingRect(ref) == QRectF(0, 0, 24 * (ref[1] + 1), 24 * (ref[1] + 1))

ZoneItemInit ==
    /\ Area = None
    /\ \E ids \in [ZoneRefs -> ZoneIds], others \in [ZoneRefs -> SUBSET OtherAux],
          parent \in ZoneRefs \cup {None} :
          LET objs == [ref \in ZoneRefs |->
                          [id |-> ids[ref], aux |-> others[ref],
                           BoundingRect |-> ZoneBoundingRect(ref)]]
              made == AuxiliaryZoneItem_init(parent, objs)
          IN  zitem = made.item /\ zoneObjs = made.zones
    /\ zcall = NoZoneCall

ZoneItemIdle ==
    /\ Area = None
    /\ zoneObjs = <<>>
    /\ zitem = AuxiliaryZoneItem_init(None, <<>>).item
    /\ zcall = NoZoneCall

ZoneItemNext ==
    \/ \E zs \in DistinctSeqs(ZoneRefs) : SetArea(zs)
    \/ \E id \in AskedIds : SetZoneID(id)
    \/ AlignToZone

-----------------------------------------------------------------------------
(* AuxiliaryImage and AuxiliaryImage_FollowsRect.  A pixmap is its name and *)
(* its size; numbers are rationals as above.  The parent item is its        *)
(* position and whether its Qt object has been deleted, in which case       *)
(* parent.x() raises RuntimeError.                                          *)

MaxFrPos == 1
FrCoords == {Q(2 * k) : k \in 0..MaxFrPos}
FrPoints == {<<c, c>> : c \in FrCoords}
RealSizes == {<<Q(4), Q(4)>>, <<Q(6), Q(6)>>}
MoveSizes == {<<Q(2), Q(2)>>, <<Q(2), Q(6)>>, <<Q(6), Q(2)>>, <<Q(6), Q(6)>>}
Pixmaps == {[name |-> "image", w |-> Q(4), h |-> Q(4)],
            [name |-> "image", w |-> Q(6), h |-> Q(6)]}
AlignLeft == "AlignLeft"
AlignRight == "AlignRight"
AlignHCenter == "AlignHCenter"
AlignTop == "AlignTop"
AlignBottom == "AlignBottom"
AlignVCenter == "AlignVCenter"
Alignments == {{AlignTop, AlignLeft}, {AlignBottom, AlignRight},
               {AlignVCenter, AlignHCenter}}

RLess(a, b) == a[1] * b[2] < b[1] * a[2]
RMin(a, b) == IF RLess(b, a) THEN b ELSE a

\* QPixmap.copy(x, y, w, h) with x = y = 0: the part of the pixmap inside
\* the rectangle.
QPixmap_copy(pixmap, w, h) ==
    [pixmap EXCEPT !.w = RMin(w, pixmap.w), !.h = RMin(h, pixmap.h)]

AuxiliaryImage_setSize(self, width, height, xoff, yoff) ==
    <<prepareGeometryChange,
      Step("BoundingRect", QRectF(Q(0), Q(0), width, height)),
      setPos(xoff, yoff),
      Step("width", width),
      Step("height", height)>>

AuxiliaryImage_FollowsRect_init(width, height) ==
    [kind |-> "AuxiliaryImage_FollowsRect", hover |-> TRUE, alpha |-> 1,
     BoundingRect |-> QRectF(Q(0), Q(0), width, height),
     pos |-> <<Q(0), Q(0)>>, width |-> width, height |-> height,
     image |-> None, alignment |-> {AlignTop, AlignLeft},
     realwidth |-> width, realheight |-> height, realimage |-> None,
     scene |-> FALSE]

AuxiliaryImage_FollowsRect_setSize(self, width, height) ==
    AuxiliaryImage_setSize(self, width, height, Q(0), Q(0))
    \o <<Step("realwidth", width), Step("realheight", height)>>

AuxiliaryImage_FollowsRect_paint(self, enabled) ==
    IF ~enabled THEN self
    ELSE IF self.realimage = None THEN [self EXCEPT !.realimage = self.image]
    ELSE self

flagPresent(flags, flag) == flag \in flags

MoveResult(item, raised, computed, updates) ==
    [item |-> item, raised |-> raised, computed |-> computed,
     updates |-> updates]

\* move up to the lookup of the parent: the size and the image to show.
AuxiliaryImage_FollowsRect_resize(self, w, h) ==
    LET width == IF RLess(w, self.realwidth) THEN w ELSE self.realwidth
        height == IF RLess(h, self.realheight) THEN h ELSE self.realheight
        changedSize == RLess(w, self.realwidth) \/ RLess(h, self.realheight)
    IN  [self EXCEPT
            !.width = width, !.height = height,
            !.image = IF self.realimage = None THEN self.image
                      ELSE IF changedSize
                           THEN QPixmap_copy(self.realimage, w, h)
                           ELSE self.realimage]

\* The absolute position move computes for the resized item.
AuxiliaryImage_FollowsRect_newpos(self, x, y, w, h) ==
    <<IF flagPresent(self.alignment, AlignLeft) THEN x
      ELSE IF flagPresent(self.alignment, AlignRight)
           THEN RSub(RAdd(x, w), self.width)
           ELSE RSub(RAdd(x, RDiv(w, Q(2))), RDiv(self.width, Q(2))),
      IF flagPresent(self.alignment, AlignTop) THEN y
      ELSE IF flagPresent(self.alignment, AlignBottom)
           THEN RSub(RAdd(y, h), self.height)
           ELSE RSub(RAdd(y, RDiv(h, Q(2))), RDiv(self.height, Q(2)))>>

\* move from the setting of the position on.
AuxiliaryImage_FollowsRect_reposition(self, parent, old, new) ==
    MoveResult(Run(self, <<setPos(new[1], new[2])>>), "", new,
               IF self.scene
               THEN <<<<RAdd(old[1], parent.x), RAdd(old[2], parent.y),
                        self.width, self.height>>>>
               ELSE <<>>)

\* A move that sets the position and updates the scene also when the item
\* has not moved.
AuxiliaryImage_FollowsRect_moveNoSkip(self, parent, x, y, w, h) ==
    LET old == self.pos
        sized == AuxiliaryImage_FollowsRect_resize(self, w, h)
        abs == AuxiliaryImage_FollowsRect_newpos(sized, x, y, w, h)
    IN  IF parent.deleted THEN MoveResult(sized, "", None, <<>>)
        ELSE AuxiliaryImage_FollowsRect_reposition(sized, parent, old,
                 <<RSub(abs[1], parent.x), RSub(abs[2], parent.y)>>)

AuxiliaryImage_FollowsRect_move(self, parent, x, y, w, h) ==
    LET old == self.pos
        sized == AuxiliaryImage_FollowsRect_resize(self, w, h)
        abs == AuxiliaryImage_FollowsRect_newpos(sized, x, y, w, h)
    IN  IF parent.deleted THEN MoveResult(sized, "", None, <<>>)
        ELSE LET new == <<RSub(abs[1], parent.x), RSub(abs[2], parent.y)>>
             IN  IF new = old THEN MoveResult(sized, "", new, <<>>)
                 ELSE AuxiliaryImage_FollowsRect_reposition(sized, parent,
                                                            old, new)

NotMoved ==
    [op |-> "__init__", args |-> None, raised |-> "", computed |-> None,
     updates |-> <<>>]

FrCalled(op, args, r) ==
    moved' = [op |-> op, args |-> args, raised |-> r.raised,
              computed |-> r.computed, updates |-> r.updates]

Quiet(item) == MoveResult(item, "", None, <<>>)

\* A sprite gives the item the pixmap to show.
FrSetImage(pixmap) ==
    /\ fr' = [fr EXCEPT !.image = pixmap]
    /\ FrCalled("image", pixmap, Quiet(fr'))
    /\ UNCHANGED <<frParent, RealViewEnabled, firstVars, ziVars, imgVars,
                   auxVars>>

FrSetSize(width, height) ==
    /\ fr' = Run(fr, AuxiliaryImage_FollowsRect_setSize(fr, width, height))
    /\ FrCalled("setSize", <<width, height>>, Quiet(fr'))
    /\ UNCHANGED <<frParent, RealViewEnabled, firstVars, ziVars, imgVars,
                   auxVars>>

FrPaint ==
    /\ fr' = AuxiliaryImage_FollowsRect_paint(fr, RealViewEnabled)
    /\ FrCalled("paint", None, Quiet(fr'))
    /\ UNCHANGED <<frParent, RealViewEnabled, firstVars, ziVars, imgVars,
                   auxVars>>

FrMove(x, y, w, h) ==
    LET r == AuxiliaryImage_FollowsRect_move(fr, frParent, x, y, w, h)
    IN  /\ fr' = r.item
        /\ FrCalled("move", <<x, y, w, h>>, r)
        /\ UNCHANGED <<frParent, RealViewEnabled, firstVars, ziVars, imgVars,
                       auxVars>>

\* The parent item is moved in the scene.
MoveParent(x, y) ==
    /\ ~frParent.deleted
    /\ frParent' = [frParent EXCEPT !.x = x, !.y = y]
    /\ FrCalled("parent.setPos", <<x, y>>, Quiet(fr))
    /\ UNCHANGED <<fr, RealViewEnabled, firstVars, ziVars, imgVars, auxVars>>

\* The parent item is deleted under the item.
DeleteParent ==
    /\ ~frParent.deleted
    /\ frParent' = [frParent EXCEPT !.deleted = TRUE]
    /\ FrCalled("parent.delete", None, Quiet(fr))
    /\ UNCHANGED <<fr, RealViewEnabled, firstVars, ziVars, imgVars, auxVars>>

FollowsRectInit ==
    /\ \E size \in RealSizes, alignment \in Alignments, scene \in BOOLEAN :
          fr = [AuxiliaryImage_FollowsRect_init(size[1], size[2])
                    EXCEPT !.alignment = alignment, !.scene = scene]
    /\ frParent = [deleted |-> FALSE, x |-> Q(0), y |-> Q(0)]
    /\ RealViewEnabled \in BOOLEAN
    /\ moved = NotMoved

FollowsRectNext ==
    \/ \E pixmap \in Pixmaps : FrSetImage(pixmap)
    \/ \E size \in RealSizes : FrSetSize(size[1], size[2])
    \/ FrPaint
    \/ \E p \in FrPoints, size \in MoveSizes :
           FrMove(p[1], p[2], size[1], size[2])
    \/ \E p \in FrPoints : MoveParent(p[1], p[2])
    \/ DeleteParent

-----------------------------------------------------------------------------
(* SpriteImage and SpriteImage_Static as whole objects: the geometry above  *)
(* with the image, the aux list and the hooks dataChanged and remove.  An   *)
(* item of the aux list is attached to the sprite's graphics item (its      *)
(* parentItem, a reference written as a one-element tuple) until something  *)
(* detaches it.                                                             *)

MaxAux == 2
StaticPixmaps == {[name |-> "image", w |-> Q(24), h |-> Q(24)],
                  [name |-> "image", w |-> Q(48), h |-> Q(36)]}
StaticSizes == {<<Q(16), Q(16)>>, <<Q(32), Q(8)>>}
StaticOffsets == {<<Q(0), Q(0)>>, <<Q(-4), Q(8)>>}
StaticKinds == {"SpriteImage_Static", "SpriteImage_StaticMultiple"}

SpriteImage_new(kind, scale) ==
    [kind |-> kind, xOffset |-> Q(0), yOffset |-> Q(0), width |-> Q(16),
     height |-> Q(16), scale |-> scale, alpha |-> 1, image |-> None,
     shown |-> TRUE, aux |-> <<>>]

StaticSize(image, scale) ==
    <<RAdd(RDiv(image.w, scale), Q(1)), RAdd(RDiv(image.h, scale), Q(2))>>

SpriteImage_Static_init(kind, scale, image, offset) ==
    LET base == [SpriteImage_new(kind, scale) EXCEPT !.image = image,
                                                     !.shown = FALSE]
        sized == IF image # None
                 THEN SpriteImage_setSize(base, StaticSize(image, scale))
                 ELSE base
    IN  IF offset # None THEN SpriteImage_setOffset(sized, offset) ELSE sized

SpriteImage_dataChanged(self) == self

\* A dataChanged that leaves the size alone when there is no image.
SpriteImage_Static_dataChangedKeepSize(self) ==
    IF self.image # None
    THEN SpriteImage_setSize(self, StaticSize(self.image, self.scale))
    ELSE self

SpriteImage_Static_dataChanged(self) ==
    LET base == SpriteImage_dataChanged(self)
    IN  IF base.image # None
        THEN SpriteImage_setSize(base, StaticSize(base.image, base.scale))
        ELSE SpriteImage_delSize(base)

\* A remove that detaches every item of the aux list and empties the list.
SpriteImage_removeDetaching(self) == [self EXCEPT !.aux = <<>>]

SpriteImage_remove(self) == self

NoSpriteCall == [op |-> "__init__", before |-> None]

SpriteCalled(op) ==
    scall' = [op |-> op,
              before |-> IF op \in {"dataChanged", "remove"} THEN simg
                         ELSE None]

SpriteFrame == UNCHANGED <<firstVars, ziVars, auxVars, frVars>>

\* The sprite class sets the image to show.
SetImage(image) ==
    /\ simg' = [simg EXCEPT !.image = image]
    /\ SpriteCalled("image")
    /\ SpriteFrame

\* The sprite class makes an auxiliary item for the sprite and appends it.
AppendAux ==
    /\ Len(simg.aux) < MaxAux
    /\ simg' = [simg EXCEPT !.aux = Append(@, [parentItem |-> <<"parent">>])]
    /\ SpriteCalled("aux.append")
    /\ SpriteFrame

SpriteSetSize(new) ==
    /\ simg' = SpriteImage_setSize(simg, new)
    /\ SpriteCalled("setSize")
    /\ SpriteFrame

SpriteSetOffset(new) ==
    /\ simg' = SpriteImage_setOffset(simg, new)
    /\ SpriteCalled("setOffset")
    /\ SpriteFrame

DataChanged ==
    /\ simg' = IF simg.kind \in StaticKinds
               THEN SpriteImage_Static_dataChanged(simg)
               ELSE SpriteImage_dataChanged(simg)
    /\ SpriteCalled("dataChanged")
    /\ SpriteFrame

Remove ==
    /\ simg' = SpriteImage_remove(simg)
    /\ SpriteCalled("remove")
    /\ SpriteFrame

SpriteInit ==
    /\ \E scale \in Scales :
          \/ simg = SpriteImage_new("SpriteImage", scale)
          \/ \E kind \in StaticKinds, image \in StaticPixmaps \cup {None},
                offset \in StaticOffsets \cup {None} :
                simg = SpriteImage_Static_init(kind, scale, image, offset)
    /\ scall = NoSpriteCall

ImgIdle ==
    /\ simg = SpriteImage_new("SpriteImage", DefaultScale)
    /\ scall = NoSpriteCall

SpriteNext ==
    \/ \E image \in StaticPixmaps \cup {None} : SetImage(image)
    \/ AppendAux
    \/ \E new \in StaticSizes : SpriteSetSize(new)
    \/ \E new \in StaticOffsets : SpriteSetOffset(new)
    \/ DataChanged
    \/ Remove

-----------------------------------------------------------------------------
(* The geometry setters of the auxiliary items of a sprite and of a         *)
(* location, each as the steps it takes; that of the auxiliary item of a    *)
(* zone, alignToZone, is above.                                             *)

MaxAuxSize == 2
AuxSizes == {Q(16 * k) : k \in 1..MaxAuxSize}
AuxOffsets == {Q(0), Q(8)}
AlignModes == {{AlignHCenter}, {AlignRight, AlignBottom}, {AlignVCenter},
               {AlignLeft, AlignTop}}
Locations == {[width |-> Q(32), height |-> Q(16),
               DrawRect |-> QRectF(Q(0), Q(0), Q(48), Q(24))]}

AuxiliarySpriteItem_init(kind) ==
    [kind |-> kind, hover |-> FALSE, pos |-> <<Q(0), Q(0)>>,
     BoundingRect |-> QRectF(Q(0), Q(0), Q(24), Q(24))]

AuxiliaryTrackObject_setSizeSteps(self, width, height) ==
    <<prepareGeometryChange,
      Step("BoundingRect", QRectF(Q(0), Q(0), RMul(width, OneAndHalf),
                                  RMul(height, OneAndHalf))),
      Step("width", width),
      Step("height", height)>>

AuxiliaryCircleOutline_setSize(self, width) ==
    LET centerOffset == RMul(RSub(Q(8), RDiv(width, Q(2))), OneAndHalf)
        fullOffset == RAdd(RSub(Q(0), RMul(width, OneAndHalf)), Q(24))
        xval == IF AlignHCenter \in self.alignMode THEN centerOffset
                ELSE IF AlignRight \in self.alignMode THEN fullOffset
                ELSE Q(0)
        yval == IF AlignVCenter \in self.alignMode THEN centerOffset
                ELSE IF AlignBottom \in self.alignMode THEN fullOffset
                ELSE Q(0)
    IN  <<prepareGeometryChange,
          Step("BoundingRect", QRectF(Q(0), Q(0), RMul(width, OneAndHalf),
                                      RMul(width, OneAndHalf))),
          setPos(xval, yval),
          Step("width", width)>>

AuxiliaryCircleOutline_init(width, alignMode) ==
    LET base == [fillFlag |-> TRUE, alignMode |-> alignMode, width |-> None]
                @@ AuxiliarySpriteItem_init("AuxiliaryCircleOutline")
    IN  Run(base, AuxiliaryCircleOutline_setSize(base, width))

AuxiliaryRectOutline_init(width, height, xoff, yoff) ==
    [kind |-> "AuxiliaryRectOutline", hover |-> FALSE,
     pos |-> <<xoff, yoff>>,
     BoundingRect |-> QRectF(Q(0), Q(0), width, height),
     color |-> None, fillFlag |-> TRUE]

AuxiliaryRectOutline_setSize(self, width, height, xoff, yoff) ==
    <<Step("BoundingRect", QRectF(Q(0), Q(0), width, height)),
      setPos(xoff, yoff)>>

AuxiliaryPainterPath_init(path, width, height, xoff, yoff) ==
    [kind |-> "AuxiliaryPainterPath", hover |-> FALSE,
     pos |-> <<xoff, yoff>>,
     BoundingRect |-> QRectF(Q(0), Q(0), width, height),
     PainterPath |-> path, fillFlag |-> TRUE]

AuxiliaryPainterPath_setSize(self, width, height, xoff, yoff) ==
    <<Step("BoundingRect", QRectF(Q(0), Q(0), width, height)),
      setPos(xoff, yoff)>>

AuxiliaryImage_init(width, height) ==
    [kind |-> "AuxiliaryImage", hover |-> TRUE, alpha |-> 1,
     BoundingRect |-> QRectF(Q(0), Q(0), width, height),
     pos |-> <<Q(0), Q(0)>>, width |-> width, height |-> height,
     image |-> None]

AuxiliaryLocationItem_init(parent, imageObj) ==
    [kind |-> "AuxiliaryLocationItem", hover |-> FALSE,
     pos |-> <<Q(0), Q(0)>>, parent |-> parent, parentItem |-> parent,
     imageObj |-> imageObj]

\* The methods of a class, by name; a call of a method the class does not
\* have raises AttributeError.
Methods(kind) ==
    IF kind = "AuxiliaryLocationItem"
    THEN {"setIsBehindLocation", "alignToLocation", "paint", "remove",
          "boundingRect", "setPos", "setParentItem"}
    ELSE {"setIsBehindSprite", "setSize", "paint", "boundingRect", "setPos",
          "setParentItem"}

AuxiliaryLocationItem_alignToLocation(self) ==
    [steps |-> <<setPos(Q(0), Q(0))>>,
     raised |-> IF "setSize" \in Methods(self.kind) THEN ""
                ELSE "AttributeError"]

AuxiliaryLocationItem_boundingRect(self) == self.parent.DrawRect

Done(steps) == [steps |-> steps, raised |-> ""]

NoAuxCall == [op |-> "__init__", trace |-> <<>>, raised |-> ""]

AuxCall(op, r) ==
    /\ aux' = Run(aux, r.steps)
    /\ events' = [op |-> op, trace |-> Trace(r.steps), raised |-> r.raised]
    /\ UNCHANGED <<firstVars, ziVars, imgVars, frVars>>

TrackObjectSetSize(width, height) ==
    /\ aux.kind = "AuxiliaryTrackObject"
    /\ AuxCall("setSize",
            Done(AuxiliaryTrackObject_setSizeSteps(aux, width, height)))

CircleOutlineSetSize(width) ==
    /\ aux.kind = "AuxiliaryCircleOutline"
    /\ AuxCall("setSize",
            Done(AuxiliaryCircleOutline_setSize(aux, width)))

RectOutlineSetSize(width, height, xoff, yoff) ==
    /\ aux.kind = "AuxiliaryRectOutline"
    /\ AuxCall("setSize",
            Done(AuxiliaryRectOutline_setSize(aux, width, height, xoff,
                                              yoff)))

PainterPathSetSize(width, height, xoff, yoff) ==
    /\ aux.kind = "AuxiliaryPainterPath"
    /\ AuxCall("setSize",
            Done(AuxiliaryPainterPath_setSize(aux, width, height, xoff,
                                              yoff)))

ImageSetSize(width, height, xoff, yoff) ==
    /\ aux.kind = "AuxiliaryImage"
    /\ AuxCall("setSize",
            Done(AuxiliaryImage_setSize(aux, width, height, xoff, yoff)))

FollowsRectSetSize(width, height) ==
    /\ aux.kind = "AuxiliaryImage_FollowsRect"
    /\ AuxCall("setSize",
            Done(AuxiliaryImage_FollowsRect_setSize(aux, width, height)))

AlignToLocation ==
    /\ aux.kind = "AuxiliaryLocationItem"
    /\ AuxCall("alignToLocation",
            AuxiliaryLocationItem_alignToLocation(aux))

\* The location's item is moved by the editor, and its auxiliary item with
\* it is put somewhere in it.
LocationItemSetPos(x, y) ==
    /\ aux.kind = "AuxiliaryLocationItem"
    /\ AuxCall("setPos", Done(<<setPos(x, y)>>))

AuxInit ==
    /\ \E width \in AuxSizes, height \in AuxSizes, xoff \in AuxOffsets :
          \/ aux = [kind |-> "AuxiliaryTrackObject"]
                   @@ AuxiliaryTrackObject_init(width, height, Horizontal)
          \/ \E alignMode \in AlignModes :
                aux = AuxiliaryCircleOutline_init(width, alignMode)
          \/ aux = AuxiliaryRectOutline_init(width, height, xoff, xoff)
          \/ aux = AuxiliaryPainterPath_init("path", width, height, xoff,
                                             xoff)
          \/ aux = AuxiliaryImage_init(width, height)
          \/ aux = AuxiliaryImage_FollowsRect_init(width, height)
          \/ \E parent \in Locations :
                aux = AuxiliaryLocationItem_init(parent, "imageObj")
    /\ events = NoAuxCall

AuxIdle ==
    /\ aux = AuxiliarySpriteItem_init("AuxiliarySpriteItem")
    /\ events = NoAuxCall

AuxNext ==
    \/ \E width \in AuxSizes, height \in AuxSizes :
          \/ TrackObjectSetSize(width, height)
          \/ FollowsRectSetSize(width, height)
          \/ \E xoff \in AuxOffsets, yoff \in AuxOffsets :
                \/ RectOutlineSetSize(width, height, xoff, yoff)
                \/ PainterPathSetSize(width, height, xoff, yoff)
                \/ ImageSetSize(width, height, xoff, yoff)
    \/ \E width \in AuxSizes : CircleOutlineSetSize(width)
    \/ AlignToLocation
    \/ \E x \in AuxOffsets, y \in AuxOffsets : LocationItemSetPos(x, y)
    \/ AlignToZone

-----------------------------------------------------------------------------
(* The specifications: one per part of the module, the other parts at rest *)
(* in their state after construction.                                      *)

GeomIdle ==
    /\ obj = Spritebox_init(DefaultScale)
    /\ last = [op |-> "__init__", arg |-> <<>>, changed |-> FALSE]
    /\ got = NoRead

ZonesIdle == zones = <<>> /\ located = NotLocated

TrackIdle ==
    /\ track = AuxiliaryTrackObject_init(Q(16), Q(16), Horizontal)
    /\ drawn = NotPainted

FrIdle ==
    /\ fr = AuxiliaryImage_FollowsRect_init(Q(4), Q(4))
    /\ frParent = [deleted |-> FALSE, x |-> Q(0), y |-> Q(0)]
    /\ RealViewEnabled = FALSE
    /\ moved = NotMoved

FirstIdle ==
    GeomIdle /\ ZonesIdle /\ GlobalsInit /\ files = {} /\ TrackIdle

LaterIdle == ZoneItemIdle /\ ImgIdle /\ AuxIdle /\ FrIdle

InitZoneItem == FirstIdle /\ ZoneItemInit /\ ImgIdle /\ AuxIdle /\ FrIdle

InitSprite ==
    FirstIdle /\ ZoneItemIdle /\ SpriteInit /\ AuxIdle /\ FrIdle

InitAux ==
    FirstIdle /\ ZoneItemInit /\ ImgIdle /\ AuxInit /\ FrIdle

InitFollowsRect ==
    FirstIdle /\ ZoneItemIdle /\ ImgIdle /\ AuxIdle /\ FollowsRectInit

InitGeom ==
    GeomInit /\ ZonesIdle /\ GlobalsInit /\ files = {} /\ TrackIdle /\ LaterIdle

InitZones ==
    GeomIdle /\ ZonesInit /\ GlobalsInit /\ files = {} /\ TrackIdle /\ LaterIdle

InitTiles ==
    GeomIdle /\ ZonesIdle /\ GlobalsInit /\ files = {} /\ TrackIdle /\ LaterIdle

InitCache ==
    GeomIdle /\ ZonesIdle /\ GlobalsInit /\ files \in FileSystems /\ TrackIdle /\ LaterIdle

InitTrack ==
    GeomIdle /\ ZonesIdle /\ GlobalsInit /\ files = {} /\ TrackInit /\ LaterIdle

SpecGeom == InitGeom /\ [][GeomNext]_vars
SpecZones == InitZones /\ [][ZonesNext]_vars
SpecTiles == InitTiles /\ [][TilesNext]_vars
SpecCache == InitCache /\ [][CacheNext]_vars
SpecTrack == InitTrack /\ [][TrackNext]_vars
SpecZoneItem == InitZoneItem /\ [][ZoneItemNext]_vars
SpecSprite == InitSprite /\ [][SpriteNext]_vars
SpecAux == InitAux /\ [][AuxNext]_vars
SpecFollowsRect == InitFollowsRect /\ [][FollowsRectNext]_vars

-----------------------------------------------------------------------------
(* Properties of the geometry of SpriteImage and Spritebox (SpecGeom).     *)

Fields == <<obj.xOffset, obj.yOffset, obj.width, obj.height>>
DefaultDimensions == <<Q(0), Q(0), Q(16), Q(16)>>

\* C1: for SpriteImage and for Spritebox, after setDimensions(D) the four
\* scalar fields are the components of D, and a getDimensions() that follows
\* it returns exactly D.
C1_SetDimensionsRoundTrip ==
    last.op = "setDimensions" =>
        /\ obj.xOffset = last.arg[1] /\ obj.yOffset = last.arg[2]
        /\ obj.width = last.arg[3] /\ obj.height = last.arg[4]
        /\ got.op = "getDimensions" => got.val = last.arg

\* A SpriteImage was given dimensions whose width and height differ, changed,
\* and was read back.
C1_Witness ==
    /\ obj.kind = "SpriteImage"
    /\ last.op = "setDimensions" /\ last.changed
    /\ last.arg[3] # last.arg[4] /\ last.arg[1] # last.arg[3]
    /\ got.op = "getDimensions"

\* C2: for SpriteImage and for Spritebox, whatever setters ran before it,
\* delDimensions() leaves getDimensions() equal to (0, 0, 16, 16).
C2_DelDimensionsDefault ==
    last.op = "delDimensions" =>
        /\ Fields = <<Q(0), Q(0), Q(16), Q(16)>>
        /\ got.op = "getDimensions" => got.val = <<Q(0), Q(0), Q(16), Q(16)>>

\* delDimensions changed a Spritebox (so it was not at the default), and
\* the dimensions were read afterwards.
C2_Witness ==
    /\ IsBox /\ last.op = "delDimensions" /\ last.changed
    /\ got.op = "getDimensions"

\* C3: in every state of a Spritebox, a read of RoundedRect returns
\* ((xOffset*scale)+1, (yOffset*scale)+1, (width*scale)-2, (height*scale)-2)
\* of the current fields; for offset (0,0), size (16,16), scale 1.5 that is
\* (1, 1, 22, 22).
C3_RoundedRectFormula ==
    got.op = "getRR" =>
        /\ got.val[1] = RAdd(RMul(obj.xOffset, obj.scale), Q(1))
        /\ got.val[2] = RAdd(RMul(obj.yOffset, obj.scale), Q(1))
        /\ got.val[3] = RSub(RMul(obj.width, obj.scale), Q(2))
        /\ got.val[4] = RSub(RMul(obj.height, obj.scale), Q(2))
        /\ (Fields = DefaultDimensions /\ obj.scale = <<3, 2>>)
               => got.val = <<Q(1), Q(1), Q(22), Q(22)>>

\* RoundedRect was read as (1, 1, 22, 22) after a reset that changed the
\* fields: the value comes from the fields as they are now.
C3_Witness ==
    /\ got.op = "getRR" /\ got.val = <<Q(1), Q(1), Q(22), Q(22)>>
    /\ last.op \in {"delDimensions", "delRR", "delBR"} /\ last.changed

\* C4: in every state of a Spritebox, a read of BoundingRect returns
\* (xOffset*scale, yOffset*scale, width*scale, height*scale) of the current
\* fields; for offset (0,0), size (16,16), scale 1.5 that is (0, 0, 24, 24).
C4_BoundingRectFormula ==
    got.op = "getBR" =>
        /\ got.val[1] = RMul(obj.xOffset, obj.scale)
        /\ got.val[2] = RMul(obj.yOffset, obj.scale)
        /\ got.val[3] = RMul(obj.width, obj.scale)
        /\ got.val[4] = RMul(obj.height, obj.scale)
        /\ (Fields = DefaultDimensions /\ obj.scale = <<3, 2>>)
               => got.val = <<Q(0), Q(0), Q(24), Q(24)>>

\* BoundingRect was read as (0, 0, 24, 24) after a reset that changed the
\* fields.
C4_Witness ==
    /\ got.op = "getBR" /\ got.val = <<Q(0), Q(0), Q(24), Q(24)>>
    /\ last.op \in {"delDimensions", "delRR", "delBR"} /\ last.changed

\* C5: setting BoundingRect to R makes the dimensions
\* (R.x/scale, R.y/scale, R.width/scale, R.height/scale), for every scale.
C5_SetBoundingRectInverse ==
    last.op = "setBR" =>
        Fields = <<RDiv(last.arg[1], obj.scale), RDiv(last.arg[2], obj.scale),
                   RDiv(last.arg[3], obj.scale), RDiv(last.arg[4], obj.scale)>>


-----------------------------------------------------------------------------
(* Properties of MapPositionToZoneID in index mode (SpecZones).            *)

\* The point of the last call lies in the rectangle of the zone at Python
\* index i, edges included.
Inside(i) ==
    LET rect == zones[i + 1].ZoneRect
    IN  /\ rect[1] <= located.x /\ located.x <= rect[1] + rect[3]
        /\ rect[2] <= located.y /\ located.y <= rect[2] + rect[4]

\* The gap on one axis between the coordinate v and the span lo .. hi.
Gap(v, lo, hi) == IF v < lo THEN lo - v ELSE IF v > hi THEN v - hi ELSE 0

\* The squared edge-distance from the point of the last call to zone i.
EdgeDist(i) ==
    LET rect == zones[i + 1].ZoneRect
        gx == Gap(located.x, rect[1], rect[1] + rect[3])
        gy == Gap(located.y, rect[2], rect[2] + rect[4])
    IN  (gx * gx) + (gy * gy)

Indices == 0 .. Len(zones) - 1

\* C6: in index mode, when the point lies inside at least one zone, the
\* result is the index of the first zone of the list that contains it,
\* whatever the zones before it are.
C6_FirstContainingZone ==
    (located.asked /\ ~located.get_id /\ \E i \in Indices : Inside(i)) =>
        /\ located.result \in Indices
        /\ Inside(located.result)
        /\ \A j \in Indices : j < located.result => ~Inside(j)

\* The point is in the second zone and not in the first, and the first lies
\* at some distance; the call returned 1.
C6_Witness ==
    /\ located.asked /\ ~located.get_id /\ Len(zones) >= 2
    /\ ~Inside(0) /\ Inside(1) /\ EdgeDist(0) > 0
    /\ located.result = 1

\* C7: in index mode, for a non-empty list and a point outside every zone,
\* the result is the smallest index whose squared edge-distance is minimal
\* over all zones; it is never -1.
C7_NearestZoneFirstWins ==
    (/\ located.asked /\ ~located.get_id /\ zones # <<>>
     /\ \A i \in Indices : ~Inside(i)) =>
        /\ located.result # -1
        /\ located.result \in Indices
        /\ \A j \in Indices : EdgeDist(located.result) <= EdgeDist(j)
        /\ \A j \in Indices :
               j < located.result => EdgeDist(j) > EdgeDist(located.result)

\* Two different zones at the same distance from an outside point: the
\* earlier one was returned.
C7_Witness ==
    /\ located.asked /\ ~located.get_id /\ Len(zones) >= 2
    /\ \A i \in Indices : ~Inside(i)
    /\ zones[1] # zones[2] /\ EdgeDist(0) = EdgeDist(1)
    /\ \A j \in Indices : EdgeDist(0) <= EdgeDist(j)
    /\ located.result = 0

-----------------------------------------------------------------------------
(* Properties of the tile table (SpecTiles) and of the image cache         *)
(* (SpecCache).                                                            *)

\* main has run since the module was loaded.
MainHasRun == OutlinePen # None

\* C8: after main and any tile loads, GetTile(id) for a slot of the table
\* that holds no tile does not fail and returns what GetTile of the fallback
\* index 4*0x200+64 returns.
C8_EmptySlotGivesFallback ==
    (/\ MainHasRun /\ called.op = "GetTile"
     /\ called.arg[1] \in 0 .. NumSlots - 1
     /\ Tiles[called.arg[1]] = None) =>
        /\ called.result.raised = ""
        /\ called.result = GetTile(Tiles, UnknownTile)

\* A step is a call of loadIfNotInImageCache for a name of the set S.
IsLoadCallFor(S) ==
    /\ called'.op = "loadIfNotInImageCache"
    /\ called'.arg[1] \in S

\* C9, as stated: once loadIfNotInImageCache has been called for a name, any
\* later call with that name performs no load and leaves the whole cache
\* unchanged.
C9_NeverReloads ==
    [][IsLoadCallFor(everNamed) =>
           (~called'.loaded /\ ImageCache' = ImageCache)]_vars

\* C9, amended: once loadIfNotInImageCache has been called for a name, any
\* later call with that name that comes before the next main() performs no
\* load and leaves the whole cache unchanged, whatever the filename and also
\* when the first load found no file.
C9_NoReloadUntilReset ==
    [][IsLoadCallFor(names) =>
           (~called'.loaded /\ ImageCache' = ImageCache)]_vars

\* A later call for a name whose first load found no file, now with a
\* filename that GetImg would find: nothing was loaded, the entry is None.
C9_Witness ==
    /\ called.op = "loadIfNotInImageCache" /\ ~called.loaded
    /\ called.arg[1] \in names
    /\ ImageCache[called.arg[1]] = None
    /\ GetImg(files, SpritesFolders, called.arg[2], FALSE) # None
    /\ \E other \in DOMAIN ImageCache : ImageCache[other] # None

-----------------------------------------------------------------------------
(* Properties of AuxiliaryTrackObject (SpecTrack).                         *)

\* The bounding rect and the painted line of a horizontal track whose line
\* lies at lineY for width 100 and height 16.
TrackClaim(lineY) ==
    track.direction = Horizontal =>
        /\ AuxiliarySpriteItem_boundingRect(track) =
               <<Q(0), Q(0), RMul(<<3, 2>>, track.width),
                 RMul(<<3, 2>>, track.height)>>
        /\ drawn.painted =>
               /\ drawn.line[1] = Q(20)
               /\ drawn.line[3] = RSub(RMul(<<3, 2>>, track.width), Q(20))
        /\ (track.width = Q(100) /\ track.height = Q(16)) =>
               /\ AuxiliarySpriteItem_boundingRect(track) =
                      <<Q(0), Q(0), Q(150), Q(24)>>
               /\ drawn.painted =>
                      drawn.line = <<Q(20), Q(lineY), Q(130), Q(lineY)>>

\* C10, as stated: a horizontal track has bounding rect (0, 0, 1.5*w, 1.5*h)
\* after construction and after every setSize, and its line runs from x=20
\* to x=1.5*w-20; for width 100 and height 16 the rect is (0, 0, 150, 24) and
\* the line is at y=18 from x=20 to x=130.
C10_TrackLineAt18 == TrackClaim(18)

\* C10, amended: the same, with the line of the 100 by 16 track at y=12
\* (height * 0.75).
C10_TrackLineAt12 == TrackClaim(12)

\* A horizontal track resized to 100 by 16 and painted.
C10_Witness ==
    /\ track.direction = Horizontal
    /\ track.width = Q(100) /\ track.height = Q(16)
    /\ drawn.painted

-----------------------------------------------------------------------------
(* Claims on AuxiliaryZoneItem.                                             *)

\* No zone of the area has this id; an area that is not loaded has no zones.
NoZoneHasId(area, objs, id) ==
    \/ ~hasattr(area, "zones")
    \/ \A i \in 1..Len(area.zones) : objs[area.zones[i]].id # id

HoldsSelf(objs) == {ref \in DOMAIN objs : "self" \in objs[ref].aux}

\* C11: setZoneID(id) with an id that matches no zone of the current area
\* raises the not-found error in every state, also when no area with a zone
\* collection is loaded, and leaves the item's parent and every zone's aux
\* set as they were.
C11_UnknownIdRaises ==
    (/\ zcall.op = "setZoneID"
     /\ NoZoneHasId(zcall.before.Area, zcall.before.zones, zcall.arg))
    => /\ zcall.raised = "ValueError"
       /\ zitem.parent = zcall.before.item.parent
       /\ \A ref \in DOMAIN zoneObjs :
              zoneObjs[ref].aux = zcall.before.zones[ref].aux

\* C12: an AuxiliaryZoneItem with a parent is in the aux set of its parent
\* and of no other zone, after construction and after every setZoneID call,
\* successful or not; a successful setZoneID(id) leaves the item out of the
\* old parent's aux set and in that of a zone of the area with this id,
\* which is its parent and its scene-graph parent.
C12_OneOwningZone ==
    /\ zitem.parent # None => HoldsSelf(zoneObjs) = {zitem.parent}
    /\ (/\ zcall.op = "setZoneID"
        /\ ~NoZoneHasId(zcall.before.Area, zcall.before.zones, zcall.arg))
       => /\ zcall.raised = ""
          /\ zitem.parent # None
          /\ zoneObjs[zitem.parent].id = zcall.arg
          /\ \E i \in 1..Len(Area.zones) : Area.zones[i] = zitem.parent
          /\ "self" \in zoneObjs[zitem.parent].aux
          /\ zitem.parentItem = zitem.parent
          /\ \A ref \in DOMAIN zoneObjs :
                 (ref = zcall.before.item.parent /\ ref # zitem.parent)
                 => "self" \notin zoneObjs[ref].aux

\* A successful setZoneID has moved the item from one zone to another.
C12_Witness ==
    /\ zcall.op = "setZoneID"
    /\ zcall.raised = ""
    /\ hasattr(Area, "zones")
    /\ zcall.before.item.parent # None
    /\ zcall.before.item.parent # zitem.parent
    /\ zoneObjs[zitem.parent].id = zcall.arg

-----------------------------------------------------------------------------
(* Claims on AuxiliaryImage_FollowsRect.move.  Every call on the item sets  *)
(* moved, so a step that ends with moved.op = "move" is a call of move, and *)
(* it follows another call of move directly when it starts with it too.    *)

SameGeometry ==
    /\ fr'.pos = fr.pos
    /\ fr'.width = fr.width
    /\ fr'.height = fr.height
    /\ fr'.image = fr.image

\* C13: whenever the parent-relative position that move computes is the
\* item's current position, the call changes neither position, width,
\* height nor displayed image and issues no scene update; a second identical
\* move right after a first one is such a call.
C13_SamePositionNoOp ==
    [][(moved'.op = "move" /\ moved'.computed = fr.pos)
       => (SameGeometry /\ moved'.updates = <<>>)]_vars

\* C13, amended: whenever the parent-relative position that move computes
\* is the item's current position, the call leaves the position alone and
\* issues no scene update (width, height and image are still recomputed
\* from w and h); a second identical move right after a first one changes
\* nothing and issues no scene update.
C13_SamePositionNoMove ==
    [][/\ (moved'.op = "move" /\ moved'.computed = fr.pos)
          => (fr'.pos = fr.pos /\ moved'.updates = <<>>)
       /\ (moved'.op = "move" /\ moved.op = "move"
           /\ moved'.args = moved.args)
          => (fr' = fr /\ moved'.updates = <<>>)]_vars

\* An item in a scene with a live parent has been left where it was by a
\* move, with a size smaller than its real size.
C13_Witness ==
    /\ moved.op = "move"
    /\ fr.scene
    /\ moved.computed = fr.pos
    /\ moved.updates = <<>>
    /\ RLess(fr.width, fr.realwidth)

\* C19: after move(x, y, w, h) on an item with a retained full image, width
\* is min(realwidth, w) and height is min(realheight, h); the image shown is
\* the full image cropped to exactly (width, height) if w or h is smaller
\* than the real size, also when only one of them is, and the full image
\* otherwise.
C19_CropToEffectiveSize ==
    (moved.op = "move" /\ fr.realimage # None)
    => LET w == moved.args[3]
           h == moved.args[4]
       IN  /\ fr.width = RMin(fr.realwidth, w)
           /\ fr.height = RMin(fr.realheight, h)
           /\ fr.image =
                 IF RLess(w, fr.realwidth) \/ RLess(h, fr.realheight)
                 THEN QPixmap_copy(fr.realimage, fr.width, fr.height)
                 ELSE fr.realimage

\* C20: move on an item whose parent has been destroyed raises nothing,
\* leaves position, width, height and displayed image as they were and
\* issues no scene update.
C20_StaleParentNoOp ==
    [][(moved'.op = "move" /\ frParent.deleted)
       => (moved'.raised = "" /\ SameGeometry /\ moved'.updates = <<>>)]_vars

-----------------------------------------------------------------------------
(* Claims on the reset.                                                     *)

\* C14: when main() has returned, the image cache, SpriteImagesLoaded and
\* the override-folder list are empty and the tile table holds a loaded
\* tile at no index, the fallback index 4 * 0x200 + 64 and every other
\* index outside 0..255 included.
C14_MainResetsAll ==
    called.op = "main"
    => /\ ImageCache = <<>>
       /\ SpriteImagesLoaded = {}
       /\ SpritesFolders = <<>>
       /\ \A k \in DOMAIN Tiles : Tiles[k] = None

-----------------------------------------------------------------------------
(* Claims on the hooks of SpriteImage.                                      *)

Attached(self) == {i \in 1..Len(self.aux) : self.aux[i].parentItem # None}

\* C15: after remove() on a sprite image that owns auxiliary items, every
\* item of its aux list has been released: none is attached to the visual
\* parent any more.
C15_RemoveDetachesAux ==
    (scall.op = "remove" /\ scall.before.aux # <<>>) => Attached(simg) = {}

\* C15, amended: remove() of SpriteImage, which SpriteImage_Static inherits,
\* is an empty hook: after it the sprite image, its aux list and the
\* attachment of every item of the list are as they were before the call.
C15_RemoveIsEmptyHook ==
    (scall.op = "remove" /\ scall.before.aux # <<>>)
    => /\ simg = scall.before
       /\ Attached(simg) = 1..Len(scall.before.aux)

\* remove() has been called on a sprite image with two auxiliary items.
C15_Witness ==
    scall.op = "remove" /\ Len(scall.before.aux) = MaxAux

SizeAfterDataChanged(self) ==
    IF self.image # None
    THEN <<RAdd(RDiv(self.image.w, self.scale), Q(1)),
           RAdd(RDiv(self.image.h, self.scale), Q(2))>>
    ELSE <<Q(16), Q(16)>>

StaticContract ==
    /\ SpriteImage_getSize(simg) = SizeAfterDataChanged(scall.before)
    /\ SpriteImage_getOffset(simg) = SpriteImage_getOffset(scall.before)

\* C16: after dataChanged() on a sprite image the size is
\* (imageWidth/scale + 1, imageHeight/scale + 2) if it has an image and
\* (16, 16) if it has none, and the offset is what it was.
C16_DataChangedSize ==
    scall.op = "dataChanged" => StaticContract

\* C16, amended: that holds of dataChanged() on a static sprite image
\* (SpriteImage_Static and its subclass SpriteImage_StaticMultiple); on a
\* plain SpriteImage dataChanged() is an empty hook and changes nothing.
C16_StaticDataChangedSize ==
    scall.op = "dataChanged"
    => IF simg.kind \in StaticKinds THEN StaticContract
       ELSE simg = scall.before

\* dataChanged() has given a static sprite image a size from its image,
\* with an offset that is not the default.
C16_Witness ==
    /\ scall.op = "dataChanged"
    /\ simg.kind \in StaticKinds
    /\ simg.image # None
    /\ SpriteImage_getSize(scall.before) # SpriteImage_getSize(simg)
    /\ SpriteImage_getOffset(simg) # <<Q(0), Q(0)>>

-----------------------------------------------------------------------------
(* Claims on the geometry setters of the auxiliary items.                   *)

\* In this order of steps every replacement of the stored bounding
\* rectangle comes after a prepareGeometryChange.
Announced(trace) ==
    \A i \in 1..Len(trace) :
        trace[i] = "BoundingRect"
        => \E j \in 1..(i - 1) : trace[j] = "prepareGeometryChange"

\* C17: every call of a geometry setter of an auxiliary item (setSize of
\* the track, circle outline, rectangle outline, painter path, image and
\* rectangle-following image; alignToZone of the zone item) calls
\* prepareGeometryChange before it replaces the stored bounding rectangle.
C17_GeometryChangeAnnounced ==
    /\ events.op = "setSize" => Announced(events.trace)
    /\ zcall.op = "alignToZone" => Announced(zcall.events)

LocationSize(self) ==
    LET rect == AuxiliaryLocationItem_boundingRect(self)
    IN  <<rect[3], rect[4]>>

\* C18: alignToLocation() of an AuxiliaryLocationItem raises nothing, and
\* after it the item is at (0, 0) and boundingRect() has the width and the
\* height of the parent location.
C18_AlignToLocation ==
    events.op = "alignToLocation"
    => /\ events.raised = ""
       /\ aux.pos = <<Q(0), Q(0)>>
       /\ LocationSize(aux) = <<aux.parent.width, aux.parent.height>>

====
